---- MODULE Spec2Model ----
(***************************************************************************)
(* A model of code-quality-checker (package code_quality_checker):         *)
(*   - CheckerConfig.should_include / _match_pattern, find_targets and     *)
(*     load_config (checker/config.py),                                    *)
(*   - get_python_files (utils/file_utils.py),                             *)
(*   - Checker.check / _run_tools (checker/base.py), BaseTool.run          *)
(*     (tools/base.py),                                                    *)
(*   - Orchestrator.check / batch_check (checker/orchestrator.py),         *)
(*   - QualityMetrics.score / rating / rating_emoji (utils/report.py).     *)
(*                                                                         *)
(* Strings that the code inspects character by character (paths, glob      *)
(* patterns, directory names) are sequences of one-character strings.      *)
(* Paths are sequences of such segments.                                   *)
(*                                                                         *)
(* Five specifications share the variables:                                *)
(*   Spec         the orchestrator: one run of the tool, single or batch   *)
(*   SpecInclude  CheckerConfig.should_include on bounded inputs           *)
(*   SpecMatch    CheckerConfig._match_pattern on bounded inputs           *)
(*   SpecTool     BaseTool.run and the adapters' parse_output on bounded   *)
(*                process outcomes                                         *)
(*   SpecScore    QualityMetrics as its counts grow                        *)
(***************************************************************************)
EXTENDS Naturals, Integers, Sequences, FiniteSets, TLC

VARIABLES
    \* ---- the orchestrator run (Spec)
    mode,         \* "single" | "batch": cli._run's args.batch
    hasYaml,      \* config.HAS_YAML: whether PyYAML could be imported
    shared,       \* the config argument of check/batch_check: NoConfig or a config
    disk,         \* the directories on disk the run looks at (set of projects)
    projects,     \* batch_check's local `projects`; for single mode the one path
    idx,          \* 1-based position of the project being checked
    pc,           \* control point of the run
    cfg,          \* the configuration of the project being checked
    targets,      \* Checker.check's target_dirs
    pyCount,      \* len(py_files) in Checker.check
    toolIdx,      \* position in self.tools inside _run_tools
    toolResults,  \* _run_tools' `results` dict: tool name -> ToolResult
    results,      \* the CheckResults delivered so far (batch_check's `results`)
    calls,        \* history: every tool.run call, in order, with its success flag
    written,      \* history: every directory made / file written under output_dir
    \* ---- functions on bounded inputs (SpecInclude, SpecMatch, SpecTool, SpecScore)
    fnPc,         \* "in": input chosen; "out", "ran", "parsed": function applied
    fnIn,         \* the input
    fnOut         \* the output

orchVars == <<mode, hasYaml, shared, disk, projects, idx, pc, cfg, targets,
              pyCount, toolIdx, toolResults, results, calls, written>>
fnVars == <<fnPc, fnIn, fnOut>>
vars == <<orchVars, fnVars>>

Min(a, b) == IF a <= b THEN a ELSE b
Max(a, b) == IF a >= b THEN a ELSE b

(***************************************************************************)
(* utils/report.py: QualityMetrics                                         *)
(*                                                                         *)
(* score is a float with one decimal of information (0.2, 1.5 and 2 times  *)
(* an integer); the model keeps it in tenths of a point, so 100.0 is 1000  *)
(* and the clamps 30, 40, 30 are 300, 400, 300.  The rating thresholds 80, *)
(* 60, 40 are 800, 600, 400.  The rating strings are the code's Chinese    *)
(* literals, named here in English: "excellent" is the code's first        *)
(* rating (you xiu), "good" the second (liang hao), "moderate" the third   *)
(* (zhong deng), "poor" the last (jiao cha); the icons are named "check",  *)
(* "warning", "orange_diamond", "red_circle".                              *)
(***************************************************************************)
ScoreNoFloor(m) ==
    1000 - 2 * m.flake8_issues - 15 * m.duplicate_blocks - 20 * m.high_complexity

ScoreAddsComplexity(m) ==
    Max(0, 1000 - Min(2 * m.flake8_issues, 300)
                - Min(15 * m.duplicate_blocks, 400)
                + Min(20 * m.high_complexity, 300))

ScoreFlake8Unclamped(m) ==
    Max(0, 1000 - 2 * m.flake8_issues
                - Min(15 * m.duplicate_blocks, 400)
                - Min(20 * m.high_complexity, 300))

score(m) ==
    Max(0, 1000 - Min(2 * m.flake8_issues, 300)
                - Min(15 * m.duplicate_blocks, 400)
                - Min(20 * m.high_complexity, 300))

rating(m) ==
    LET s == score(m)
    IN  IF s >= 800 THEN "excellent"
        ELSE IF s >= 600 THEN "good"
        ELSE IF s >= 400 THEN "moderate"
        ELSE "poor"

RatingEmojiOtherThreshold(m) ==
    LET s == score(m)
    IN  IF s >= 800 THEN "check"
        ELSE IF s > 600 THEN "warning"
        ELSE IF s >= 400 THEN "orange_diamond"
        ELSE "red_circle"

rating_emoji(m) ==
    LET s == score(m)
    IN  IF s >= 800 THEN "check"
        ELSE IF s >= 600 THEN "warning"
        ELSE IF s >= 400 THEN "orange_diamond"
        ELSE "red_circle"

\* What reading the three properties of a QualityMetrics gives.
ReadMetrics(m) ==
    [score |-> score(m), rating |-> rating(m), rating_emoji |-> rating_emoji(m)]

(***************************************************************************)
(* Strings as character sequences                                          *)
(***************************************************************************)
S_git == <<".", "g", "i", "t">>
S_pycache == <<"_", "_", "p", "y", "c", "a", "c", "h", "e", "_", "_">>
S_dotvenv == <<".", "v", "e", "n", "v">>
S_venv == <<"v", "e", "n", "v">>
S_env == <<"e", "n", "v">>
S_node_modules == <<"n", "o", "d", "e", "_", "m", "o", "d", "u", "l", "e", "s">>
S_build == <<"b", "u", "i", "l", "d">>
S_dist == <<"d", "i", "s", "t">>
S_pytest_cache == <<".", "p", "y", "t", "e", "s", "t", "_", "c", "a", "c", "h", "e">>
S_mypy_cache == <<".", "m", "y", "p", "y", "_", "c", "a", "c", "h", "e">>
S_tox == <<".", "t", "o", "x">>
S_egg_info == <<"*", ".", "e", "g", "g", "-", "i", "n", "f", "o">>
S_dot_eggs == <<".", "e", "g", "g", "s">>
S_outputs == <<"o", "u", "t", "p", "u", "t", "s">>
S_eggs == <<"e", "g", "g", "s">>

\* str.rstrip('/')
RECURSIVE rstrip_slash(_)
rstrip_slash(s) ==
    IF s # <<>> /\ s[Len(s)] = "/" THEN rstrip_slash(SubSeq(s, 1, Len(s) - 1)) ELSE s

\* str.startswith
startswith(s, prefix) ==
    Len(prefix) <= Len(s) /\ SubSeq(s, 1, Len(prefix)) = prefix

\* '/'.join(parts)
RECURSIVE join_slash(_)
join_slash(parts) ==
    IF parts = <<>> THEN <<>>
    ELSE IF Len(parts) = 1 THEN parts[1]
    ELSE parts[1] \o <<"/">> \o join_slash(Tail(parts))

\* s.split('/'): the components between separators, empty ones included
RECURSIVE split_slash(_)
split_slash(s) ==
    IF \A i \in 1..Len(s) : s[i] # "/" THEN <<s>>
    ELSE LET k == CHOOSE i \in 1..Len(s) :
                      s[i] = "/" /\ \A j \in 1..(i - 1) : s[j] # "/"
         IN  <<SubSeq(s, 1, k - 1)>> \o split_slash(SubSeq(s, k + 1, Len(s)))

\* pathlib: the components of a path string, without the empty and "." ones
PathComponents(s) ==
    SelectSeq(split_slash(s), LAMBDA c : c # <<>> /\ c # <<".">>)

\* Path(s).name: the final component, "" when there is none ("/", ".", "")
PathName(s) ==
    LET cs == PathComponents(s)
    IN  IF cs = <<>> THEN <<>> ELSE cs[Len(cs)]

(***************************************************************************)
(* fnmatch.fnmatch on POSIX (normcase is the identity): the whole string   *)
(* must match; '*' matches any run of characters, '/' included; '?' any    *)
(* one character.  Bracket expressions are not modelled: no pattern of the *)
(* model holds a '['.                                                      *)
(***************************************************************************)
RECURSIVE FnmatchStarNeedsChar(_, _)
FnmatchStarNeedsChar(s, pat) ==
    IF pat = <<>> THEN s = <<>>
    ELSE IF Head(pat) = "*"
         THEN /\ s # <<>>
              /\ \/ FnmatchStarNeedsChar(Tail(s), Tail(pat))
                 \/ FnmatchStarNeedsChar(Tail(s), pat)
    ELSE /\ s # <<>>
         /\ Head(pat) = "?" \/ Head(pat) = Head(s)
         /\ FnmatchStarNeedsChar(Tail(s), Tail(pat))

RECURSIVE fnmatch(_, _)
fnmatch(s, pat) ==
    IF pat = <<>> THEN s = <<>>
    ELSE IF Head(pat) = "*"
         THEN \/ fnmatch(s, Tail(pat))
              \/ s # <<>> /\ fnmatch(Tail(s), pat)
    ELSE /\ s # <<>>
         /\ Head(pat) = "?" \/ Head(pat) = Head(s)
         /\ fnmatch(Tail(s), Tail(pat))

(***************************************************************************)
(* checker/config.py: CheckerConfig                                        *)
(*                                                                         *)
(* An absolute path is the sequence of its segments below "/".  A relative *)
(* path is [abs |-> FALSE, segs |-> ...]; relative_to's ValueError         *)
(* fallback keeps the absolute path, [abs |-> TRUE, segs |-> ...].         *)
(***************************************************************************)
IsPrefix(base, path) ==
    Len(base) <= Len(path) /\ SubSeq(path, 1, Len(base)) = base

\* path.relative_to(base), with should_include's except ValueError branch
relative_to(path, base) ==
    IF IsPrefix(base, path)
    THEN [abs |-> FALSE, segs |-> SubSeq(path, Len(base) + 1, Len(path))]
    ELSE [abs |-> TRUE, segs |-> path]

\* str(rel_path)
PathStr(rel) ==
    IF rel.abs THEN <<"/">> \o join_slash(rel.segs)
    ELSE IF rel.segs = <<>> THEN <<".">>
    ELSE join_slash(rel.segs)

\* rel_path.parts
PathParts(rel) ==
    IF rel.abs THEN <<<<"/">>>> \o rel.segs ELSE rel.segs

match_pattern(path_str, pattern) ==
    LET pat == rstrip_slash(pattern)
    IN  \/ fnmatch(path_str, pat)
        \/ fnmatch(PathName(path_str), pat)

\* the exclude loop of should_include: some pattern matches rel_str or a part
ExcludeHits(c, rel) ==
    \E i \in 1..Len(c.exclude) :
        \/ match_pattern(PathStr(rel), c.exclude[i])
        \/ \E k \in 1..Len(PathParts(rel)) :
               match_pattern(PathParts(rel)[k], c.exclude[i])

\* the include loop of should_include
IncludeHits(c, rel) ==
    \E i \in 1..Len(c.include) :
        \/ match_pattern(PathStr(rel), c.include[i])
        \/ startswith(PathStr(rel), rstrip_slash(c.include[i]))

ShouldIncludeIncludeFirst(c, path, base) ==
    LET rel == relative_to(path, base)
    IN  IF c.include # <<>> /\ IncludeHits(c, rel) THEN TRUE
        ELSE IF ExcludeHits(c, rel) THEN FALSE
        ELSE c.include = <<>>

should_include(c, path, base) ==
    LET rel == relative_to(path, base)
    IN  IF ExcludeHits(c, rel) THEN FALSE
        ELSE IF c.include = <<>> THEN TRUE
        ELSE IncludeHits(c, rel)

(***************************************************************************)
(* Values shared by the specifications                                     *)
(***************************************************************************)
\* config = None
NoConfig == [kind |-> "none"]

\* CheckerConfig(include, exclude, project_name); project_name "" is None
Config(inc, exc, name) ==
    [kind |-> "config", include |-> inc, exclude |-> exc, project_name |-> name]

\* the orchestrator before a run starts (and throughout the function specs)
OrchIdle ==
    /\ mode = "none"
    /\ hasYaml = TRUE
    /\ shared = NoConfig
    /\ disk = {}
    /\ projects = <<>>
    /\ idx = 0
    /\ pc = "idle"
    /\ cfg = NoConfig
    /\ targets = <<>>
    /\ pyCount = 0
    /\ toolIdx = 0
    /\ toolResults = <<>>
    /\ results = <<>>
    /\ calls = <<>>
    /\ written = <<>>

(***************************************************************************)
(* SpecScore: a QualityMetrics whose counts grow; score, rating and        *)
(* rating_emoji are read after every change.                               *)
(***************************************************************************)
MaxFlake8 == 151
MaxDuplicates == 28
MaxComplexity == 16
\* a count far beyond every clamp
LargeCounts == {1000}

Metrics(f, d, c) ==
    [flake8_issues |-> f, duplicate_blocks |-> d, high_complexity |-> c]

ScoreInit ==
    /\ OrchIdle
    /\ fnPc = "out"
    /\ fnIn = Metrics(0, 0, 0)
    /\ fnOut = ReadMetrics(fnIn)

IncreaseFlake8 ==
    /\ fnIn.flake8_issues < MaxFlake8
    /\ fnIn' = [fnIn EXCEPT !.flake8_issues = @ + 1]
    /\ fnOut' = ReadMetrics(fnIn')
    /\ UNCHANGED <<orchVars, fnPc>>

IncreaseFlake8Far ==
    /\ \E n \in LargeCounts :
           /\ fnIn.flake8_issues < n
           /\ fnIn' = [fnIn EXCEPT !.flake8_issues = n]
    /\ fnOut' = ReadMetrics(fnIn')
    /\ UNCHANGED <<orchVars, fnPc>>

IncreaseDuplicates ==
    /\ fnIn.duplicate_blocks < MaxDuplicates
    /\ fnIn' = [fnIn EXCEPT !.duplicate_blocks = @ + 1]
    /\ fnOut' = ReadMetrics(fnIn')
    /\ UNCHANGED <<orchVars, fnPc>>

IncreaseComplexity ==
    /\ fnIn.high_complexity < MaxComplexity
    /\ fnIn' = [fnIn EXCEPT !.high_complexity = @ + 1]
    /\ fnOut' = ReadMetrics(fnIn')
    /\ UNCHANGED <<orchVars, fnPc>>

ScoreNext ==
    \/ IncreaseFlake8
    \/ IncreaseFlake8Far
    \/ IncreaseDuplicates
    \/ IncreaseComplexity

SpecScore == ScoreInit /\ [][ScoreNext]_vars

(***************************************************************************)
(* SpecInclude: should_include applied to a path, a project root and a     *)
(* configuration drawn from bounded sets.                                  *)
(***************************************************************************)
MaxDepth == 2
MaxPatterns == 1

\* directory and file names
SegNames == {<<"a">>, <<"b">>, <<"a", "b">>}
\* include / exclude patterns
Patterns == {<<"a">>, <<"a", "/">>, <<"a", "*">>, <<"*", "b">>,
             <<"a", "/", "b">>, <<"?">>}
\* project roots: "/" and "/a"
Roots == {<<>>, <<<<"a">>>>}

SeqsUpTo(S, n) == UNION {[1..k -> S] : k \in 0..n}

IncludeInit ==
    /\ OrchIdle
    /\ fnPc = "in"
    /\ \E path \in SeqsUpTo(SegNames, MaxDepth), base \in Roots,
          inc \in SeqsUpTo(Patterns, MaxPatterns),
          exc \in SeqsUpTo(Patterns, MaxPatterns) :
           fnIn = [path |-> path, base |-> base, config |-> Config(inc, exc, <<>>)]
    /\ fnOut = FALSE

ApplyShouldInclude ==
    /\ fnPc = "in"
    /\ fnPc' = "out"
    /\ fnOut' = should_include(fnIn.config, fnIn.path, fnIn.base)
    /\ UNCHANGED <<orchVars, fnIn>>

IncludeNext == ApplyShouldInclude

SpecInclude == IncludeInit /\ [][IncludeNext]_vars

(***************************************************************************)
(* SpecMatch: CheckerConfig._match_pattern applied to a relative path      *)
(* string and a pattern drawn from bounded sets.                           *)
(***************************************************************************)
MaxSegments == 3

\* the names of the directories and files of a path
MatchNames == {<<"s", "r", "c">>, <<"p", "k", "g">>, <<"a", ".", "p", "y">>, <<".", "p", "y">>, <<"a", "p", "y">>, <<"a", ".", "p", "y", "c">>}
MatchPatterns == {<<"*", ".", "p", "y">>, <<"s", "r", "c", "/", "*", ".", "p", "y">>, <<"s", "r", "c", "/", "*">>, <<"*", "/", "a", ".", "p", "y">>}

MatchInit ==
    /\ OrchIdle
    /\ fnPc = "in"
    /\ \E segs \in SeqsUpTo(MatchNames, MaxSegments), pattern \in MatchPatterns :
           /\ segs # <<>>
           /\ fnIn = [path_str |-> join_slash(segs), pattern |-> pattern]
    /\ fnOut = FALSE

ApplyMatchPattern ==
    /\ fnPc = "in"
    /\ fnPc' = "out"
    /\ fnOut' = match_pattern(fnIn.path_str, fnIn.pattern)
    /\ UNCHANGED <<orchVars, fnIn>>

MatchNext == ApplyMatchPattern

SpecMatch == MatchInit /\ [][MatchNext]_vars

(***************************************************************************)
(* Text: the str, re, int and float operations the parsers use             *)
(*                                                                         *)
(* A text is the sequence of its characters.  A regular expression is the  *)
(* sequence of its elements: one character of a class, or a greedy run     *)
(* (`+`) of characters of a class; a group is a range of elements.         *)
(***************************************************************************)
Digits == {"0", "1", "2", "3", "4", "5", "6", "7", "8", "9"}
LowerCase == {"a", "b", "c", "d", "e", "f", "g", "h", "i", "j", "k", "l", "m",
              "n", "o", "p", "q", "r", "s", "t", "u", "v", "w", "x", "y", "z"}
UpperCase == {"A", "B", "C", "D", "E", "F", "G", "H", "I", "J", "K", "L", "M",
              "N", "O", "P", "Q", "R", "S", "T", "U", "V", "W", "X", "Y", "Z"}
\* \s, \d and \w on the characters of the model
WhiteSpace == {" ", "\t", "\n", "\r"}
WordChars == Digits \cup LowerCase \cup UpperCase \cup {"_"}

\* s.find(sub, from): the least position >= from where sub starts, 0 if none
find_sub(s, sub, from) ==
    LET at == {i \in from..(Len(s) - Len(sub) + 1) :
                  SubSeq(s, i, i + Len(sub) - 1) = sub}
    IN  IF at = {} THEN 0 ELSE CHOOSE i \in at : \A j \in at : i <= j

\* sub in s
contains(s, sub) == find_sub(s, sub, 1) # 0

\* s.count(sub): occurrences that do not overlap, from the left
RECURSIVE count_from(_, _, _)
count_from(s, sub, from) ==
    LET k == find_sub(s, sub, from)
    IN  IF k = 0 THEN 0 ELSE 1 + count_from(s, sub, k + Len(sub))

str_count(s, sub) == count_from(s, sub, 1)

\* s.split(ch): the pieces between separators, empty ones included
RECURSIVE str_split(_, _)
str_split(s, ch) ==
    IF \A i \in 1..Len(s) : s[i] # ch THEN <<s>>
    ELSE LET k == CHOOSE i \in 1..Len(s) :
                      s[i] = ch /\ \A j \in 1..(i - 1) : s[j] # ch
         IN  <<SubSeq(s, 1, k - 1)>> \o str_split(SubSeq(s, k + 1, Len(s)), ch)

\* ch.join(parts)
RECURSIVE str_join(_, _)
str_join(parts, ch) ==
    IF parts = <<>> THEN <<>>
    ELSE IF Len(parts) = 1 THEN parts[1]
    ELSE parts[1] \o <<ch>> \o str_join(Tail(parts), ch)

\* s.strip()
RECURSIVE lstrip(_)
lstrip(s) == IF s # <<>> /\ Head(s) \in WhiteSpace THEN lstrip(Tail(s)) ELSE s

RECURSIVE rstrip(_)
rstrip(s) ==
    IF s # <<>> /\ s[Len(s)] \in WhiteSpace THEN rstrip(SubSeq(s, 1, Len(s) - 1)) ELSE s

strip(s) == lstrip(rstrip(s))

\* s.split()[0] of a text that is not blank: its first word
first_word(s) ==
    LET t == lstrip(s)
        ends == {i \in 1..Len(t) : t[i] \in WhiteSpace}
    IN  IF ends = {} THEN t
        ELSE SubSeq(t, 1, (CHOOSE i \in ends : \A j \in ends : i <= j) - 1)

\* regular expression elements: a literal character, one of a class, a run of
\* a class, a run of any character but the newline
Lit(ch) == [any |-> FALSE, cls |-> {ch}, plus |-> FALSE]
OneOf(cls) == [any |-> FALSE, cls |-> cls, plus |-> FALSE]
Plus(cls) == [any |-> FALSE, cls |-> cls, plus |-> TRUE]
AnyPlus == [any |-> TRUE, cls |-> {}, plus |-> TRUE]
Lits(text) == [i \in 1..Len(text) |-> Lit(text[i])]

NoMatch == [ok |-> FALSE, spans |-> <<>>]

\* the match of elements k.. of pat at position i of s, as re finds it: a run
\* takes as many characters as leave a match for the rest (greedy, with
\* backtracking); spans are the positions each element took
\* whether the character at position j of s is one the element e takes
Fits(s, j, e) == j <= Len(s) /\ IF e.any THEN s[j] # "\n" ELSE s[j] \in e.cls

\* the length of the longest run of such characters from position i
RECURSIVE RunLen(_, _, _)
RunLen(s, i, e) == IF Fits(s, i, e) THEN 1 + RunLen(s, i + 1, e) ELSE 0

RECURSIVE MatchAt(_, _, _, _)
RECURSIVE MatchRun(_, _, _, _, _)
MatchAt(s, i, pat, k) ==
    IF k > Len(pat) THEN [ok |-> TRUE, spans |-> <<>>]
    ELSE MatchRun(s, i, pat, k,
                  IF pat[k].plus THEN RunLen(s, i, pat[k])
                  ELSE IF Fits(s, i, pat[k]) THEN 1 ELSE 0)

\* element k takes n characters if the rest then matches, else one fewer
MatchRun(s, i, pat, k, n) ==
    IF n < 1 THEN NoMatch
    ELSE LET rest == MatchAt(s, i + n, pat, k + 1)
         IN  IF rest.ok
             THEN [ok |-> TRUE,
                   spans |-> <<[from |-> i, to |-> i + n - 1]>> \o rest.spans]
             ELSE MatchRun(s, i, pat, k, n - 1)

\* re.search(pat, s): the match at the leftmost position that has one
RECURSIVE SearchFrom(_, _, _)
SearchFrom(s, pat, i) ==
    IF i > Len(s) + 1 THEN NoMatch
    ELSE LET found == MatchAt(s, i, pat, 1)
         IN  IF found.ok THEN found ELSE SearchFrom(s, pat, i + 1)

re_search(s, pat) == SearchFrom(s, pat, 1)

\* match.group: the text elements a..b of the pattern took
Group(s, m, a, b) == SubSeq(s, m.spans[a].from, m.spans[b].to)

\* int(text) of a run of digits
DigitValue(ch) == CHOOSE n \in 0..9 : ch = <<"0", "1", "2", "3", "4", "5", "6", "7", "8", "9">>[n + 1]

RECURSIVE int(_)
int(text) ==
    IF text = <<>> THEN 0
    ELSE 10 * int(SubSeq(text, 1, Len(text) - 1)) + DigitValue(text[Len(text)])

\* float(text) of a run of digits and dots: a ValueError unless there is a
\* digit and at most one dot; the value is num / 10^scale, without trailing
\* zeros
Raise(err) == [kind |-> "raise", error |-> err]
Return(v) == [kind |-> "return", value |-> v]

RECURSIVE Normal(_)
Normal(f) ==
    IF f.scale > 0 /\ f.num % 10 = 0
    THEN Normal([num |-> f.num \div 10, scale |-> f.scale - 1]) ELSE f

Float(num, scale) == Normal([num |-> num, scale |-> scale])

float(text) ==
    LET dots == {i \in 1..Len(text) : text[i] = "."}
        digits == SelectSeq(text, LAMBDA ch : ch \in Digits)
    IN  IF Cardinality(dots) > 1 \/ digits = <<>>
        THEN Raise("ValueError")
        ELSE Return(Float(int(digits),
                          IF dots = {} THEN 0
                          ELSE Len(text) - (CHOOSE i \in dots : TRUE)))

(***************************************************************************)
(* Projects on disk                                                        *)
(*                                                                         *)
(* A project directory is                                                  *)
(*   [name, exists, marker, yaml, dirs, files]                             *)
(* name    its directory name (characters)                                 *)
(* exists  whether the path exists (a single check may be given a path     *)
(*         that does not)                                                  *)
(* marker  "none" | "valid" | "malformed": its .cqc.yaml                   *)
(* yaml    what a valid .cqc.yaml holds: [include, exclude, name], where   *)
(*         include is [is_list, v]: a list of patterns or one string       *)
(* dirs    the directories below it, files the files below it, each a      *)
(*         path relative to the project (a sequence of segments)           *)
(***************************************************************************)
\* code points order the characters the model's names use
CharOrder == <<"*", "-", ".", "/", "?", "_", "a", "b", "c", "d", "e", "f", "g",
               "h", "i", "j", "k", "l", "m", "n", "o", "p", "q", "r", "s", "t",
               "u", "v", "w", "x", "y", "z">>
Ord(ch) == CHOOSE i \in 1..Len(CharOrder) : CharOrder[i] = ch

\* Python's str <
RECURSIVE StrLess(_, _)
StrLess(a, b) ==
    IF b = <<>> THEN FALSE
    ELSE IF a = <<>> THEN TRUE
    ELSE IF Head(a) = Head(b) THEN StrLess(Tail(a), Tail(b))
    ELSE Ord(Head(a)) < Ord(Head(b))

\* sorted(S, key=...) for a set S whose keys (key[x], strings) are distinct
RECURSIVE SortedBy(_, _)
SortedBy(S, key) ==
    IF S = {} THEN <<>>
    ELSE LET m == CHOOSE x \in S : \A y \in S \ {x} : StrLess(key[x], key[y])
         IN  <<m>> \o SortedBy(S \ {m}, key)

RECURSIVE ConcatAll(_)
ConcatAll(ss) == IF ss = <<>> THEN <<>> ELSE Head(ss) \o ConcatAll(Tail(ss))

RECURSIVE SumSeq(_)
SumSeq(ns) == IF ns = <<>> THEN 0 ELSE Head(ns) + SumSeq(Tail(ns))

\* the directory every project of the model lives in: /w
WorkspacePath == <<<<"w">>>>
AbsPath(p, rel) == WorkspacePath \o <<p.name>> \o rel

\* entries in a directory listing order (the OS's; the model takes path order)
InOrder(S) == SortedBy(S, [rel \in S |-> PathStr([abs |-> FALSE, segs |-> rel])])

\* item.rglob("*.py") / target_dir.rglob("*.py"): the files below dir whose
\* name matches *.py
RglobPy(p, dir) ==
    {f \in p.files : /\ IsPrefix(dir, f)
                      /\ Len(f) > Len(dir)
                      /\ fnmatch(f[Len(f)], <<"*", ".", "p", "y">>)}

(***************************************************************************)
(* checker/config.py: DEFAULT_EXCLUDE, load_config, find_targets           *)
(***************************************************************************)
\* a set in the code: list(DEFAULT_EXCLUDE) has no fixed order, and no
\* operation of the model depends on it
DEFAULT_EXCLUDE ==
    <<S_git, S_pycache, S_dotvenv, S_venv, S_env, S_node_modules, S_build,
      S_dist, S_pytest_cache, S_mypy_cache, S_tox, S_egg_info, S_dot_eggs>>

InSeq(x, s) == \E i \in 1..Len(s) : s[i] = x

\* all_exclude: the defaults, then each user pattern not already present
RECURSIVE MergeExclude(_, _)
MergeExclude(all, user) ==
    IF user = <<>> THEN all
    ELSE MergeExclude(IF InSeq(Head(user), all) THEN all ELSE Append(all, Head(user)),
                      Tail(user))


load_yaml_config(p, has_yaml) ==
    IF ~has_yaml THEN Raise("ImportError")
    ELSE IF p.marker = "malformed" THEN Raise("YAMLError")
    ELSE Config(IF p.yaml.include.is_list THEN p.yaml.include.v
                                          ELSE <<p.yaml.include.v>>,
                MergeExclude(DEFAULT_EXCLUDE, p.yaml.exclude),
                p.yaml.name)

load_config(p, has_yaml) ==
    IF p.exists /\ p.marker # "none" THEN load_yaml_config(p, has_yaml)
    ELSE Config(<<>>, DEFAULT_EXCLUDE, <<>>)

\* project_path.glob(pattern) for a pattern without "**": the entries whose
\* path has one segment per pattern component, each matching its component
GlobMatches(p, pattern) ==
    LET comps == PathComponents(pattern)
    IN  {e \in p.dirs \cup p.files :
            /\ Len(e) = Len(comps)
            /\ \A i \in 1..Len(e) : fnmatch(e[i], comps[i])}

find_targets(p, c) ==
    IF c.include # <<>>
    THEN ConcatAll([i \in 1..Len(c.include) |->
            LET pattern == c.include[i]
            IN  IF InSeq("*", pattern)
                THEN InOrder({m \in GlobMatches(p, pattern) :
                                 /\ m \in p.dirs
                                 /\ should_include(c, AbsPath(p, m), AbsPath(p, <<>>))})
                ELSE LET candidate == PathComponents(rstrip_slash(pattern))
                     IN  IF candidate = <<>> \/ candidate \in p.dirs
                         THEN <<candidate>> ELSE <<>>])
    ELSE InOrder({item \in p.dirs :
                    /\ Len(item) = 1
                    /\ should_include(c, AbsPath(p, item), AbsPath(p, <<>>))
                    /\ RglobPy(p, item) # {}})

(***************************************************************************)
(* utils/file_utils.py: get_python_files; checker/base.py:                 *)
(* Checker._get_python_files                                               *)
(***************************************************************************)
DEFAULT_EXCLUDE_DIRS ==
    {S_git, S_pycache, S_dotvenv, S_venv, S_env, S_node_modules, S_outputs,
     S_build, S_dist, S_pytest_cache, S_mypy_cache, S_tox, S_eggs, S_egg_info,
     S_dot_eggs}

\* py_file.parts of an absolute path
AbsParts(p, rel) == <<<<"/">>>> \o AbsPath(p, rel)

\* the files get_python_files keeps below one target directory
KeptPyFiles(p, target) ==
    {f \in RglobPy(p, target) :
        ~ \E excluded \in DEFAULT_EXCLUDE_DIRS : InSeq(excluded, AbsParts(p, f))}

\* the list is the targets' file lists one after the other: a file below two
\* overlapping targets is in it twice
get_python_files(p, target_dirs) ==
    [i \in 1..Len(target_dirs) |-> KeptPyFiles(p, target_dirs[i])]

filtered_python_files(p, target_dirs, c) ==
    [i \in 1..Len(target_dirs) |->
        {f \in get_python_files(p, target_dirs)[i] :
            should_include(c, AbsPath(p, f), AbsPath(p, <<>>))}]

\* len(py_files)
FileCount(lists) == SumSeq([i \in 1..Len(lists) |-> Cardinality(lists[i])])

(***************************************************************************)
(* tools/base.py: ToolResult, BaseTool.run                                 *)
(*                                                                         *)
(* A dict is the sequence of its [key, value] items in insertion order.    *)
(* What the external process does is an outcome: it could not be run       *)
(* (subprocess.run raised), or it ran and left an exit status, a standard  *)
(* output and a standard error.                                            *)
(***************************************************************************)
EmptyDict == <<>>
DictKeys(d) == [i \in 1..Len(d) |-> d[i].key]
DictHas(d, k) == \E i \in 1..Len(d) : d[i].key = k
DictGet(d, k) == d[CHOOSE i \in 1..Len(d) : d[i].key = k].value
\* d[k] = v
DictPut(d, k, v) ==
    IF DictHas(d, k)
    THEN [i \in 1..Len(d) |-> IF d[i].key = k THEN [key |-> k, value |-> v] ELSE d[i]]
    ELSE Append(d, [key |-> k, value |-> v])

\* a file or directory below output_dir: dir "" is output_dir itself, file ""
\* names the directory
OutPath(dir, file) == [dir |-> dir, file |-> file]
NoFile == [dir |-> <<>>, file |-> "None"]

ToolResult(name, ok, count, raw, report, details, err) ==
    [tool_name |-> name, success |-> ok, issue_count |-> count, raw_output |-> raw,
     report_file |-> report, details |-> details, error_message |-> err]

(***************************************************************************)
(* tools/flake8_tool.py, pylint_tool.py, radon_tool.py: parse_output       *)
(*                                                                         *)
(* Each returns Return(dict) or, where the code lets an exception out,     *)
(* Raise(error).  A float is [num, scale] (see float).                     *)
(***************************************************************************)
\* d.get(k, default)
DictGetOr(d, k, default) == IF DictHas(d, k) THEN DictGet(d, k) ELSE default
\* d.values()
DictValues(d) == [i \in 1..Len(d) |-> d[i].value]

\* Flake8Tool.parse_output, lines 79-90: the loop over issue_lines
RECURSIVE Flake8Tally(_, _)
Flake8Tally(issue_lines, acc) ==
    IF issue_lines = <<>> THEN acc
    ELSE LET line == Head(issue_lines)
             parts == str_split(line, ":")
             file_path == parts[1]
             message == strip(str_join(SubSeq(parts, 4, Len(parts)), ":"))
             code == IF message # <<>> THEN first_word(message) ELSE <<"U", "N", "K", "N", "O", "W", "N">>
         IN  Flake8Tally(Tail(issue_lines),
                 IF Len(parts) >= 4
                 THEN [issues_by_code |->
                           DictPut(acc.issues_by_code, code,
                                   DictGetOr(acc.issues_by_code, code, 0) + 1),
                       issues_by_file |->
                           DictPut(acc.issues_by_file, file_path,
                                   DictGetOr(acc.issues_by_file, file_path, 0) + 1)]
                 ELSE acc)

\* Flake8Tool.parse_output
flake8_parse_output(output) ==
    LET split == str_split(output, "\n")
        lines == SelectSeq([i \in 1..Len(split) |-> strip(split[i])],
                           LAMBDA line : line # <<>>)
        issue_lines == SelectSeq(lines, LAMBDA line :
                           /\ line # <<>>
                           /\ ~startswith(line, <<"=", "=", "=">>)
                           /\ contains(line, <<":">>))
        tally == Flake8Tally(issue_lines, [issues_by_code |-> EmptyDict,
                                           issues_by_file |-> EmptyDict])
    IN  Return([issue_count |-> Len(issue_lines),
                issues_by_code |-> tally.issues_by_code,
                issues_by_file |-> tally.issues_by_file])

\* r'rated at ([\d.]+)/10': group 1 is element 10
RE_rated == Lits(<<"r", "a", "t", "e", "d", " ", "a", "t", " ">>) \o <<Plus(Digits \cup {"."})>> \o Lits(<<"/", "1", "0">>)
\* r'(\d+) error' and the like: group 1 is element 1
RE_count(word) == <<Plus(Digits)>> \o Lits(<<" ">> \o word)

\* PylintTool.parse_output, lines 85-95: type_patterns and the loop over it
type_patterns ==
    <<[pattern |-> RE_count(<<"e", "r", "r", "o", "r">>), issue_type |-> "error"],
      [pattern |-> RE_count(<<"w", "a", "r", "n", "i", "n", "g">>), issue_type |-> "warning"],
      [pattern |-> RE_count(<<"r", "e", "f", "a", "c", "t", "o", "r">>), issue_type |-> "refactor"],
      [pattern |-> RE_count(<<"c", "o", "n", "v", "e", "n", "t", "i", "o", "n">>), issue_type |-> "convention"]>>

RECURSIVE PylintTypes(_, _, _)
PylintTypes(output, patterns, issues_by_type) ==
    IF patterns = <<>> THEN issues_by_type
    ELSE LET match == re_search(output, Head(patterns).pattern)
         IN  PylintTypes(output, Tail(patterns),
                 IF match.ok
                 THEN DictPut(issues_by_type, Head(patterns).issue_type,
                              int(Group(output, match, 1, 1)))
                 ELSE issues_by_type)

\* PylintTool.parse_output
pylint_parse_output(output) ==
    LET duplicate_blocks_ == str_count(output, <<"S", "i", "m", "i", "l", "a", "r", " ", "l", "i", "n", "e", "s">>)
        score_match == re_search(output, RE_rated)
        score_ == IF score_match.ok THEN float(Group(output, score_match, 10, 10))
                  ELSE Return(Float(0, 0))
        issues_by_type == PylintTypes(output, type_patterns, EmptyDict)
    IN  IF score_.kind = "raise" THEN score_
        ELSE Return([issue_count |-> SumSeq(DictValues(issues_by_type)),
                     duplicate_blocks |-> duplicate_blocks_,
                     score |-> score_.value,
                     issues_by_type |-> issues_by_type])

\* r'\s+[MFC]\s+\d+:\d+\s+(\w+)\s+-\s+([A-F])\s+\((\d+)\)': the groups are
\* elements 8, 12 and 15
RE_cc ==
    <<Plus(WhiteSpace), OneOf({"M", "F", "C"}), Plus(WhiteSpace), Plus(Digits),
      Lit(":"), Plus(Digits), Plus(WhiteSpace), Plus(WordChars), Plus(WhiteSpace),
      Lit("-"), Plus(WhiteSpace), OneOf({"A", "B", "C", "D", "E", "F"}),
      Plus(WhiteSpace), Lit("("), Plus(Digits), Lit(")")>>

HighGradeFromB(grade) == grade \in {"B", "C", "D", "E", "F"}

\* RadonCCTool.parse_output, line 66: grade in ('C', 'D', 'E', 'F')
high_grade(grade) == grade \in {"C", "D", "E", "F"}

LowGradeOnlyC(grade) == grade = "C"

\* RadonMITool.parse_output, line 136: grade in ('B', 'C')
low_grade(grade) == grade \in {"B", "C"}

ZeroGrades(grades) == [i \in 1..Len(grades) |-> [key |-> grades[i], value |-> 0]]

\* RadonCCTool.parse_output, lines 56-72: the loop over the lines
RECURSIVE RadonCCTally(_, _)
RadonCCTally(lines, acc) ==
    IF lines = <<>> THEN acc
    ELSE LET line == Head(lines)
             match == re_search(line, RE_cc)
             func_name == Group(line, match, 8, 8)
             grade == Group(line, match, 12, 12)[1]
             score_ == int(Group(line, match, 15, 15))
         IN  RadonCCTally(Tail(lines),
                 IF match.ok
                 THEN [functions_by_grade |->
                           DictPut(acc.functions_by_grade, grade,
                                   DictGetOr(acc.functions_by_grade, grade, 0) + 1),
                       high_complexity_functions |->
                           IF high_grade(grade)
                           THEN Append(acc.high_complexity_functions,
                                       [name |-> func_name, grade |-> grade,
                                        score |-> score_, line |-> strip(line)])
                           ELSE acc.high_complexity_functions]
                 ELSE acc)

\* RadonCCTool.parse_output
radon_cc_parse_output(output) ==
    LET tally == RadonCCTally(str_split(output, "\n"),
                     [functions_by_grade |-> ZeroGrades(<<"A", "B", "C", "D", "E", "F">>),
                      high_complexity_functions |-> <<>>])
        high_count == SumSeq([i \in 1..4 |->
                          DictGetOr(tally.functions_by_grade, <<"C", "D", "E", "F">>[i], 0)])
    IN  Return([issue_count |-> high_count,
                functions_by_grade |-> tally.functions_by_grade,
                high_complexity_functions |-> tally.high_complexity_functions])

\* r'(.+\.py)\s+-\s+([ABC])\s+\(([\d.]+)\)': group 1 is elements 1-4, the
\* others elements 8 and 11
RE_mi ==
    <<AnyPlus, Lit("."), Lit("p"), Lit("y"), Plus(WhiteSpace), Lit("-"),
      Plus(WhiteSpace), OneOf({"A", "B", "C"}), Plus(WhiteSpace), Lit("("),
      Plus(Digits \cup {"."}), Lit(")")>>

\* RadonMITool.parse_output, lines 126-141: the loop over the lines; float()
\* of the third group can raise
RECURSIVE RadonMITally(_, _)
RadonMITally(lines, acc) ==
    IF lines = <<>> THEN Return(acc)
    ELSE LET line == Head(lines)
             match == re_search(line, RE_mi)
             file_path == strip(Group(line, match, 1, 4))
             grade == Group(line, match, 8, 8)[1]
             score_ == float(Group(line, match, 11, 11))
         IN  IF ~match.ok THEN RadonMITally(Tail(lines), acc)
             ELSE IF score_.kind = "raise" THEN score_
             ELSE RadonMITally(Tail(lines),
                      [files_by_grade |->
                           DictPut(acc.files_by_grade, grade,
                                   DictGetOr(acc.files_by_grade, grade, 0) + 1),
                       low_maintainability_files |->
                           IF low_grade(grade)
                           THEN Append(acc.low_maintainability_files,
                                       [file |-> file_path, grade |-> grade,
                                        score |-> score_.value])
                           ELSE acc.low_maintainability_files])

\* RadonMITool.parse_output
radon_mi_parse_output(output) ==
    LET tally == RadonMITally(str_split(output, "\n"),
                     [files_by_grade |-> ZeroGrades(<<"A", "B", "C">>),
                      low_maintainability_files |-> <<>>])
    IN  IF tally.kind = "raise" THEN tally
        ELSE Return([issue_count |-> DictGetOr(tally.value.files_by_grade, "C", 0),
                     files_by_grade |-> tally.value.files_by_grade,
                     low_maintainability_files |-> tally.value.low_maintainability_files])

\* tool.parse_output, by the tool's name
parse_output(tool, output) ==
    CASE tool = "flake8" -> flake8_parse_output(output)
      [] tool = "pylint" -> pylint_parse_output(output)
      [] tool = "radon_cc" -> radon_cc_parse_output(output)
      [] tool = "radon_mi" -> radon_mi_parse_output(output)

\* parsed.get(key, 0)
ParsedGet(parsed, key) == IF key \in DOMAIN parsed THEN parsed[key] ELSE 0

\* what subprocess.run did: it raised, or the process ran and left a
\* CompletedProcess
NotRun == [launched |-> FALSE]
Completed(returncode, stdout, stderr) ==
    [launched |-> TRUE, returncode |-> returncode, stdout |-> stdout, stderr |-> stderr]

\* BaseTool.run, lines 116-118: the text saved and kept as raw_output
CombinedOutput(proc) ==
    IF proc.stderr # <<>>
    THEN proc.stdout \o <<"\n", "=", "=", "=", " ", "S", "T", "D", "E", "R", "R", " ", "=", "=", "=", "\n">> \o proc.stderr
    ELSE proc.stdout

ParserInputCombined(proc) == CombinedOutput(proc)

\* BaseTool.run, line 127: the text handed to parse_output
ParserInput(proc) == proc.stdout

\* BaseTool.run, lines 105-143, under one outcome of the process: the
\* ToolResult, the paths made or written, and the steps taken, in order
run_command(name, output_file, proc) ==
    IF ~proc.launched
    THEN [result |-> ToolResult(name, FALSE, 0, <<>>, NoFile, EmptyDict, "process error"),
          writes |-> <<>>, steps |-> <<"build_command", "subprocess.run">>]
    ELSE LET output == CombinedOutput(proc)
             writes == IF output_file = NoFile THEN <<>>
                       ELSE <<[op |-> "mkdir", path |-> OutPath(output_file.dir, ""),
                               content |-> <<>>],
                              [op |-> "write", path |-> output_file, content |-> output]>>
             parsed == parse_output(name, ParserInput(proc))
             steps == <<"build_command", "subprocess.run">>
                      \o [k \in 1..Len(writes) |-> writes[k].op]
                      \o <<"parse_output">>
         IN  [result |-> IF parsed.kind = "raise"
                         THEN ToolResult(name, FALSE, 0, <<>>, NoFile, EmptyDict,
                                         parsed.error)
                         ELSE ToolResult(name, TRUE, ParsedGet(parsed.value, "issue_count"),
                                         output, output_file, parsed.value, ""),
              writes |-> writes, steps |-> steps]

ToolRunNoTargetGuard(name, target_dirs, output_file, proc) ==
    run_command(name, output_file, proc)

\* BaseTool.run(targets, output_file)
tool_run(name, target_dirs, output_file, proc) ==
    IF target_dirs = <<>>
    THEN [result |-> ToolResult(name, FALSE, 0, <<>>, NoFile, EmptyDict,
                                "No targets specified"),
          writes |-> <<>>, steps |-> <<>>]
    ELSE run_command(name, output_file, proc)

(***************************************************************************)
(* checker/base.py: CheckResult, Checker                                   *)
(***************************************************************************)
\* Checker.__init__: the default tools, by name
Tools == <<"flake8", "pylint", "radon_cc", "radon_mi">>

CheckResult(name, path, ok, count, dirs, tres, err) ==
    [project_name |-> name, project_path |-> path, success |-> ok,
     python_files |-> count, target_dirs |-> dirs, tool_results |-> tres,
     error_message |-> err]

Failed(name, path, err) == CheckResult(name, path, FALSE, 0, <<>>, EmptyDict, err)

\* Checker.check's `config`: loaded from the project when None is passed
checker_config(p, given, has_yaml) ==
    IF given = NoConfig THEN load_config(p, has_yaml) ELSE given

\* project_name after the config's override
ProjectName(p, c) == IF c.project_name # <<>> THEN c.project_name ELSE p.name

CheckOutcomeNoTargetGuard(p, c) ==
    LET target_dirs == find_targets(p, c)
        py_files == filtered_python_files(p, target_dirs, c)
    IN  IF ~p.exists
        THEN [proceed |-> FALSE,
              result |-> Failed(p.name, p.name, "Project path does not exist")]
        ELSE IF FileCount(py_files) = 0
        THEN [proceed |-> FALSE,
              result |-> Failed(ProjectName(p, c), p.name, "No Python files found")]
        ELSE [proceed |-> TRUE, target_dirs |-> target_dirs,
              python_files |-> FileCount(py_files)]

\* Checker.check up to the call of _run_tools: an early return, or the
\* targets and the file count to go on with
CheckOutcome(p, c) ==
    LET target_dirs == find_targets(p, c)
        py_files == filtered_python_files(p, target_dirs, c)
    IN  IF ~p.exists
        THEN [proceed |-> FALSE,
              result |-> Failed(p.name, p.name, "Project path does not exist")]
        ELSE IF target_dirs = <<>>
        THEN [proceed |-> FALSE,
              result |-> Failed(ProjectName(p, c), p.name, "No target directories found")]
        ELSE IF FileCount(py_files) = 0
        THEN [proceed |-> FALSE,
              result |-> Failed(ProjectName(p, c), p.name, "No Python files found")]
        ELSE [proceed |-> TRUE, target_dirs |-> target_dirs,
              python_files |-> FileCount(py_files)]

NextToolStopsOnFailure(i, res) == IF res.success THEN i + 1 ELSE Len(Tools) + 1

\* _run_tools' for loop: the next tool, whatever the result of this one
NextTool(i, res) == i + 1

SuccessRequiresAllTools(tres) ==
    \A i \in 1..Len(tres) : tres[i].value.success

\* the success flag of the CheckResult Checker.check returns after _run_tools
SuccessAfterTools(tres) == TRUE

DuplicateBlocksFromIssueCount(r) ==
    IF DictHas(r.tool_results, "pylint") /\ DictGet(r.tool_results, "pylint").success
    THEN DictGet(r.tool_results, "pylint").issue_count ELSE 0

\* CheckResult's properties
flake8_issues(r) ==
    IF DictHas(r.tool_results, "flake8") /\ DictGet(r.tool_results, "flake8").success
    THEN DictGet(r.tool_results, "flake8").issue_count ELSE 0

duplicate_blocks(r) ==
    IF DictHas(r.tool_results, "pylint") /\ DictGet(r.tool_results, "pylint").success
    THEN ParsedGet(DictGet(r.tool_results, "pylint").details, "duplicate_blocks")
    ELSE 0

high_complexity(r) ==
    IF DictHas(r.tool_results, "radon_cc") /\ DictGet(r.tool_results, "radon_cc").success
    THEN DictGet(r.tool_results, "radon_cc").issue_count ELSE 0

(***************************************************************************)
(* checker/orchestrator.py: Orchestrator                                   *)
(***************************************************************************)
\* _find_projects: the children of the workspace that are projects, by name
find_projects(workspace) ==
    LET found == {item \in workspace :
                     /\ item.exists
                     /\ ~startswith(item.name, <<".">>)
                     /\ item.name \notin {S_node_modules, S_pycache, S_venv,
                                          S_dotvenv, S_env}
                     /\ \/ item.marker # "none"
                        \/ RglobPy(item, <<>>) # {}}
    IN  SortedBy(found, [item \in found |-> item.name])

\* _generate_report, lines 203-209: the QualityMetrics of a CheckResult
metrics_of(r) ==
    [flake8_issues |-> flake8_issues(r),
     duplicate_blocks |-> duplicate_blocks(r),
     high_complexity |-> high_complexity(r),
     python_files |-> r.python_files,
     project_name |-> r.project_name]

\* ReportGenerator.generate_summary_markdown: what the report says
summary_markdown(m) ==
    [project_name |-> m.project_name, python_files |-> m.python_files,
     flake8_issues |-> m.flake8_issues, duplicate_blocks |-> m.duplicate_blocks,
     high_complexity |-> m.high_complexity, score |-> score(m),
     rating |-> rating(m), rating_emoji |-> rating_emoji(m)]

\* sorted(all_metrics, key=lambda x: x.score): ascending, equal scores in
\* their given order
RECURSIVE InsertByScore(_, _)
InsertByScore(sorted, m) ==
    IF sorted = <<>> THEN <<m>>
    ELSE IF score(m) < score(Head(sorted)) THEN <<m>> \o sorted
    ELSE <<Head(sorted)>> \o InsertByScore(Tail(sorted), m)

RECURSIVE sorted_by_score(_)
sorted_by_score(ms) ==
    IF ms = <<>> THEN <<>>
    ELSE InsertByScore(sorted_by_score(SubSeq(ms, 1, Len(ms) - 1)), ms[Len(ms)])

\* ReportGenerator.generate_batch_summary: what the report says
batch_summary(all_metrics) ==
    [projects |-> Len(all_metrics),
     total_files |-> SumSeq([i \in 1..Len(all_metrics) |-> all_metrics[i].python_files]),
     total_flake8 |-> SumSeq([i \in 1..Len(all_metrics) |-> all_metrics[i].flake8_issues]),
     total_dup |-> SumSeq([i \in 1..Len(all_metrics) |-> all_metrics[i].duplicate_blocks]),
     total_complex |-> SumSeq([i \in 1..Len(all_metrics) |-> all_metrics[i].high_complexity]),
     rows |-> [i \in 1..Len(all_metrics) |->
                  summary_markdown(sorted_by_score(all_metrics)[i])]]

\* _generate_report: what it writes for one CheckResult
generate_report(r) ==
    IF ~r.success THEN <<>>
    ELSE <<[op |-> "mkdir", path |-> OutPath(r.project_name, ""), content |-> <<>>],
           [op |-> "write", path |-> OutPath(r.project_name, "SUMMARY.md"),
            content |-> summary_markdown(metrics_of(r))]>>

GenerateBatchReportOfAll(rs) ==
    IF rs = <<>> THEN <<>>
    ELSE <<[op |-> "mkdir", path |-> OutPath(<<>>, ""), content |-> <<>>],
           [op |-> "write", path |-> OutPath(<<>>, "SUMMARY.md"),
            content |-> batch_summary([i \in 1..Len(rs) |-> metrics_of(rs[i])])]>>

\* _generate_batch_report: what it writes for the results of a batch
generate_batch_report(rs) ==
    LET successful == SelectSeq(rs, LAMBDA r : r.success)
        metrics_list == [i \in 1..Len(successful) |-> metrics_of(successful[i])]
    IN  IF successful = <<>> THEN <<>>
        ELSE <<[op |-> "mkdir", path |-> OutPath(<<>>, ""), content |-> <<>>],
               [op |-> "write", path |-> OutPath(<<>>, "SUMMARY.md"),
                content |-> batch_summary(metrics_list)]>>

\* the writes ws, each marked with the project check (0: the batch) making it
By(i, ws) ==
    [k \in 1..Len(ws) |-> [by |-> i, op |-> ws[k].op, path |-> ws[k].path,
                           content |-> ws[k].content]]

(***************************************************************************)
(* The runs of the model: the projects, configurations and process         *)
(* outcomes the orchestrator is run on.                                    *)
(***************************************************************************)
MaxProjects == 3

N_app == <<"a", "p", "p">>
N_lib == <<"l", "i", "b">>
N_bad == <<"b", "a", "d">>
N_out == <<"o", "u", "t">>
N_nop == <<"n", "o", "p">>
N_doc == <<"d", "o", "c">>
N_mix == <<"m", "i", "x">>
N_gone == <<"g", "o", "n", "e">>
N_core == <<"c", "o", "r", "e">>
N_all == <<"a", "l", "l">>
D_src == <<"s", "r", "c">>
D_pkg == <<"p", "k", "g">>
D_t == <<"t">>
F_m == <<"m", ".", "p", "y">>
F_r == <<"r", ".", "m", "d">>

NoYaml == [include |-> [is_list |-> TRUE, v |-> <<>>], exclude |-> <<>>, name |-> <<>>]

Project(name, exists, marker, yaml, dirs, files) ==
    [name |-> name, exists |-> exists, marker |-> marker, yaml |-> yaml,
     dirs |-> dirs, files |-> files]

\* src/m.py, no .cqc.yaml: auto-scan finds src
P_app == Project(N_app, TRUE, "none", NoYaml, {<<D_src>>}, {<<D_src, F_m>>})
\* .cqc.yaml: include: src (one string), exclude: [t], name: core
P_lib == Project(N_lib, TRUE, "valid",
                 [include |-> [is_list |-> FALSE, v |-> D_src],
                  exclude |-> <<D_t>>, name |-> N_core],
                 {<<D_src>>, <<D_src, D_t>>},
                 {<<D_src, F_m>>, <<D_src, D_t, F_m>>})
\* pkg/m.py and a .cqc.yaml that does not parse
P_bad == Project(N_bad, TRUE, "malformed", NoYaml, {<<D_pkg>>}, {<<D_pkg, F_m>>})
\* its only Python file is below outputs/, which get_python_files drops
P_out == Project(N_out, TRUE, "none", NoYaml, {<<S_outputs>>}, {<<S_outputs, F_m>>})
\* its only Python file is below env/, which the default exclude drops
P_nop == Project(N_nop, TRUE, "none", NoYaml, {<<S_env>>}, {<<S_env, F_m>>})
\* .cqc.yaml: include: [src, t], exclude: [t]; src/m.py and t/m.py
P_mix == Project(N_mix, TRUE, "valid",
                 [include |-> [is_list |-> TRUE, v |-> <<D_src, D_t>>],
                  exclude |-> <<D_t>>, name |-> <<>>],
                 {<<D_src>>, <<D_t>>},
                 {<<D_src, F_m>>, <<D_t, F_m>>})
\* no Python file and no .cqc.yaml: not a project for _find_projects
P_doc == Project(N_doc, TRUE, "none", NoYaml, {<<D_src>>}, {<<D_src, F_r>>})
\* a path that does not exist
P_gone == Project(N_gone, FALSE, "none", NoYaml, {}, {})

OnDisk == {P_app, P_lib, P_bad, P_out, P_nop, P_doc}

\* the -c FILE configuration, if any: include [src], name all
SharedConfigs == {NoConfig, Config(<<D_src>>, DEFAULT_EXCLUDE, N_all)}

\* what the external processes of a run can do: not start, or run and
\* leave one of these outputs
ProcessOutcomes(tool) ==
    {NotRun} \cup
    CASE tool = "flake8" ->
             {Completed(0, <<>>, <<>>),
              Completed(1, <<"a", ".", "p", "y", ":", "1", ":", "1", ":", " ", "E", "1", " ", "x", "\n", "b", ".", "p", "y", ":", "2", ":", "3", ":", " ", "W", "2">>, <<>>)}
      [] tool = "pylint" ->
{Completed(8, <<"S", "i", "m", "i", "l", "a", "r", " ", "l", "i", "n", "e", "s", "\n", "S", "i", "m", "i", "l", "a", "r", " ", "l", "i", "n", "e", "s">>, <<"w">>)}
      [] tool = "radon_cc" -> {Completed(0, <<" ", "M", " ", "2", ":", "4", " ", "g", " ", "-", " ", "C", " ", "(", "1", "5", ")">>, <<>>)}
      [] tool = "radon_mi" -> {Completed(0, <<"c", ".", "p", "y", " ", "-", " ", "C", " ", "(", "5", ".", "0", ")">>, <<>>)}

(***************************************************************************)
(* Spec: one run of cli._run, single (Orchestrator.check) or batch         *)
(* (Orchestrator.batch_check).  pc:                                        *)
(*   start -> [load ->] check -> (tools ->)* checked -> ... -> done        *)
(* and "raised" when an exception leaves the orchestrator.                 *)
(***************************************************************************)
Init ==
    /\ mode \in {"single", "batch"}
    /\ shared \in SharedConfigs
    \* HAS_YAML is read by _load_yaml_config only, which a run with a shared
    \* configuration never calls
    /\ hasYaml \in IF shared = NoConfig THEN BOOLEAN ELSE {TRUE}
    /\ disk \in IF mode = "single"
                THEN {{p} : p \in OnDisk \cup {P_gone, P_mix}}
                ELSE {w \in SUBSET OnDisk : Cardinality(w) <= MaxProjects}
    /\ projects = <<>>
    /\ idx = 0
    /\ pc = "start"
    /\ cfg = NoConfig
    /\ targets = <<>>
    /\ pyCount = 0
    /\ toolIdx = 0
    /\ toolResults = EmptyDict
    /\ results = <<>>
    /\ calls = <<>>
    /\ written = <<>>
    /\ fnPc = "idle"
    /\ fnIn = 0
    /\ fnOut = 0

\* Orchestrator.check, lines 53-60: resolve the path, load the configuration
OrchestratorCheckLoad ==
    /\ pc = "start" /\ mode = "single"
    /\ LET p == CHOOSE q \in disk : TRUE
           c == IF shared = NoConfig THEN load_config(p, hasYaml) ELSE shared
       IN  /\ projects' = <<p>>
           /\ idx' = 1
           /\ IF c.kind = "raise"
              THEN pc' = "raised" /\ cfg' = cfg
              ELSE pc' = "check" /\ cfg' = c
    /\ UNCHANGED <<mode, hasYaml, shared, disk, targets, pyCount, toolIdx,
                   toolResults, results, calls, written, fnVars>>

\* batch_check, lines 123-139: discover the projects
BatchCheckStart ==
    /\ pc = "start" /\ mode = "batch"
    /\ projects' = find_projects(disk)
    /\ IF projects' = <<>>
       THEN pc' = "done" /\ idx' = idx
       ELSE pc' = "load" /\ idx' = 1
    /\ UNCHANGED <<mode, hasYaml, shared, disk, cfg, targets, pyCount, toolIdx,
                   toolResults, results, calls, written, fnVars>>

\* batch_check, line 146: the shared configuration or the project's own
BatchLoadConfig ==
    /\ pc = "load"
    /\ LET c == IF shared # NoConfig THEN shared
                ELSE load_config(projects[idx], hasYaml)
       IN  IF c.kind = "raise"
           THEN pc' = "raised" /\ cfg' = cfg
           ELSE pc' = "check" /\ cfg' = c
    /\ UNCHANGED <<mode, hasYaml, shared, disk, projects, idx, targets, pyCount,
                   toolIdx, toolResults, results, calls, written, fnVars>>

\* Checker.check, lines 79-118: an early return or on to _run_tools
CheckerCheckResolve ==
    /\ pc = "check"
    /\ LET p == projects[idx]
           c == checker_config(p, cfg, hasYaml)
       IN  IF c.kind = "raise"
           THEN /\ pc' = "raised"
                /\ UNCHANGED <<targets, pyCount, toolIdx, toolResults, results>>
           ELSE LET o == CheckOutcome(p, c)
                IN  IF o.proceed
                    THEN /\ pc' = "tools"
                         /\ targets' = o.target_dirs
                         /\ pyCount' = o.python_files
                         /\ toolIdx' = 1
                         /\ toolResults' = EmptyDict
                         /\ UNCHANGED results
                    ELSE /\ pc' = "checked"
                         /\ results' = Append(results, o.result)
                         /\ UNCHANGED <<targets, pyCount, toolIdx, toolResults>>
    /\ UNCHANGED <<mode, hasYaml, shared, disk, projects, idx, cfg, calls,
                   written, fnVars>>

\* _run_tools, lines 151-158: one turn of the loop, with tool.run
RunTool ==
    /\ pc = "tools" /\ toolIdx <= Len(Tools)
    /\ LET tool == Tools[toolIdx]
           report_dir == ProjectName(projects[idx], cfg)
           output_file == OutPath(report_dir, tool \o "_report.txt")
       IN  \E outcome \in ProcessOutcomes(tool) :
               LET r == tool_run(tool, targets, output_file, outcome)
               IN  /\ written' = written
                                 \o By(idx, <<[op |-> "mkdir", path |-> OutPath(report_dir, ""),
                                             content |-> <<>>]>>)
                                 \o By(idx, r.writes)
                   /\ calls' = Append(calls, [by |-> idx, tool |-> tool, targets |-> targets,
                                           ok |-> r.result.success])
                   /\ toolResults' = DictPut(toolResults, tool, r.result)
                   /\ toolIdx' = NextTool(toolIdx, r.result)
    /\ UNCHANGED <<mode, hasYaml, shared, disk, projects, idx, pc, cfg, targets,
                   pyCount, results, fnVars>>

\* Checker.check, lines 119-128: _run_tools returned, the result is built
CheckerCheckReturn ==
    /\ pc = "tools" /\ toolIdx > Len(Tools)
    /\ results' = Append(results,
                         CheckResult(ProjectName(projects[idx], cfg), projects[idx].name,
                                     SuccessAfterTools(toolResults), pyCount, targets,
                                     toolResults, ""))
    /\ pc' = "checked"
    /\ UNCHANGED <<mode, hasYaml, shared, disk, projects, idx, cfg, targets,
                   pyCount, toolIdx, toolResults, calls, written, fnVars>>

\* Orchestrator.check, lines 75-102: return a failure, or write the report
OrchestratorCheckFinish ==
    /\ pc = "checked" /\ mode = "single"
    /\ written' = written \o By(idx, generate_report(results[idx]))
    /\ pc' = "done"
    /\ UNCHANGED <<mode, hasYaml, shared, disk, projects, idx, cfg, targets,
                   pyCount, toolIdx, toolResults, results, calls, fnVars>>

\* batch_check, lines 150-163 and the loop's step: report, then the next
\* project or the batch report
BatchAfterCheck ==
    /\ pc = "checked" /\ mode = "batch"
    /\ written' = written \o By(idx, generate_report(results[idx]))
    /\ IF idx < Len(projects)
       THEN idx' = idx + 1 /\ pc' = "load"
       ELSE idx' = idx /\ pc' = "batch_report"
    /\ UNCHANGED <<mode, hasYaml, shared, disk, projects, cfg, targets, pyCount,
                   toolIdx, toolResults, results, calls, fnVars>>

\* batch_check, lines 165-175: the batch summary, and return
BatchReport ==
    /\ pc = "batch_report"
    /\ written' = written \o By(0, generate_batch_report(results))
    /\ pc' = "done"
    /\ UNCHANGED <<mode, hasYaml, shared, disk, projects, idx, cfg, targets,
                   pyCount, toolIdx, toolResults, results, calls, fnVars>>

Next ==
    \/ OrchestratorCheckLoad
    \/ BatchCheckStart
    \/ BatchLoadConfig
    \/ CheckerCheckResolve
    \/ RunTool
    \/ CheckerCheckReturn
    \/ OrchestratorCheckFinish
    \/ BatchAfterCheck
    \/ BatchReport

Spec == Init /\ [][Next]_vars

\* cli._run, lines 138-143: the status returned for the results of a run
run_status(batch, rs) ==
    IF batch
    THEN IF \E i \in 1..Len(rs) : rs[i].success THEN 0 ELSE 1
    ELSE IF rs[1].success THEN 0 ELSE 1

\* the exit status of the process once the run is over (pc is "done" or
\* "raised"): sys.exit(main()), and 1 when an exception leaves main
ExitStatus ==
    IF pc = "raised" THEN 1 ELSE run_status(mode = "batch", results)

(***************************************************************************)
(* SpecTool: BaseTool.run and parse_output of the four adapters, applied   *)
(* to targets, a report file and a process outcome drawn from bounded      *)
(* sets.  A standard output is a concatenation of fragments.               *)
(***************************************************************************)
MaxFragments == 2

Fragments(tool) ==
    CASE tool = "flake8" ->
             {<<"a", ".", "p", "y", ":", "1", ":", "1", ":", " ", "E", "1", " ", "x">>, <<"b", ".", "p", "y", ":", "2", ":", "3", ":", " ", "W", "2">>, <<"=", "=", "=", " ", "s", ":", " ", "1">>, <<"2", " ", "E", "1">>,
              <<"c", ":">>, <<"\n">>}
      [] tool = "pylint" ->
             {<<"S", "i", "m", "i", "l", "a", "r", " ", "l", "i", "n", "e", "s">>, <<"r", "a", "t", "e", "d", " ", "a", "t", " ", "7", ".", "5", "/", "1", "0">>, <<"r", "a", "t", "e", "d", " ", "a", "t", " ", ".", ".", "/", "1", "0">>,
              <<"3", " ", "e", "r", "r", "o", "r">>, <<"1", "2", " ", "w", "a", "r", "n", "i", "n", "g">>, <<"\n">>}
      [] tool = "radon_cc" ->
             {<<" ", "F", " ", "1", ":", "0", " ", "f", " ", "-", " ", "A", " ", "(", "1", ")", "\n">>, <<" ", "M", " ", "2", ":", "4", " ", "g", " ", "-", " ", "C", " ", "(", "1", "5", ")">>, <<" ", "C", " ", "3", ":", "0", " ", "K", " ", "-", " ", "F", " ", "(", "4", "1", ")">>,
              <<" ", "F", " ", "1", ":", "0", " ", "f", " ", "-", " ", "B", " ", "(", "6", ")">>, <<"a", ".", "p", "y">>, <<"\n">>}
      [] tool = "radon_mi" ->
             {<<"a", ".", "p", "y", " ", "-", " ", "A", " ", "(", "8", "5", ".", "5", ")">>, <<"b", ".", "p", "y", " ", "-", " ", "B", " ", "(", "1", "5", ")", "\n">>, <<"c", ".", "p", "y", " ", "-", " ", "C", " ", "(", "5", ".", "0", ")">>,
              <<"d", ".", "p", "y", " ", "-", " ", "C", " ", "(", "1", ".", "2", ".", "3", ")">>, <<"x">>, <<"\n">>}

Texts(tool) == {ConcatAll(fs) : fs \in SeqsUpTo(Fragments(tool), MaxFragments)}
StdErrs == {<<>>, <<"w", ":", " ", "1">>}
ReturnCodes == {0, 1}
TargetLists == {<<>>, <<<<D_src>>>>}
OutputFiles == {NoFile, OutPath(N_app, "report.txt")}

ToolInit ==
    /\ OrchIdle
    /\ fnPc = "in"
    /\ \E k \in 1..Len(Tools), target_dirs \in TargetLists, output_file \in OutputFiles :
           \E proc \in {NotRun} \cup {Completed(rc, out, err) :
                                       rc \in ReturnCodes, out \in Texts(Tools[k]),
                                       err \in StdErrs} :
               fnIn = [tool |-> Tools[k], targets |-> target_dirs,
                       output_file |-> output_file, proc |-> proc]
    /\ fnOut = <<>>

\* tool.run(targets, output_file)
ApplyToolRun ==
    /\ fnPc = "in"
    /\ fnPc' = "ran"
    /\ fnOut' = tool_run(fnIn.tool, fnIn.targets, fnIn.output_file, fnIn.proc)
    /\ UNCHANGED <<orchVars, fnIn>>

\* tool.parse_output(stdout), called on its own
ApplyParseOutput ==
    /\ fnPc = "in" /\ fnIn.proc.launched
    /\ fnPc' = "parsed"
    /\ fnOut' = parse_output(fnIn.tool, fnIn.proc.stdout)
    /\ UNCHANGED <<orchVars, fnIn>>

ToolNext ==
    \/ ApplyToolRun
    \/ ApplyParseOutput

SpecTool == ToolInit /\ [][ToolNext]_vars

(***************************************************************************)
(* Properties of the orchestrator (Spec)                                   *)
(***************************************************************************)
\* the configuration the i-th project was checked with
ConfigUsed(i) ==
    IF shared # NoConfig THEN shared ELSE load_config(projects[i], hasYaml)

\* the tool runs and the writes of the i-th project check
CallsBy(i) == SelectSeq(calls, LAMBDA e : e.by = i)
WritesBy(i) == SelectSeq(written, LAMBDA e : e.by = i)

\* C1: Checker.check ends in exactly one terminal state, decided in order:
\* Failed("Project path does not exist") for a missing path, else
\* Failed("No target directories found") when find_targets is empty, else
\* Failed("No Python files found") when no file survives the filter, else
\* Succeeded, and then every configured analyzer was run once, in list order,
\* with the same target list, and tool_results has one entry per analyzer.
\* While a check runs it has no result yet and one of its steps can be taken
\* (the loop over the tools is at a tool or at its end); once it has returned
\* there is exactly one result for it.
C1_CheckTerminalState ==
    /\ pc \in {"check", "tools"} => Len(results) = idx - 1
    /\ pc = "tools" => toolIdx \in 1..(Len(Tools) + 1)
    /\ pc = "checked" => Len(results) = idx
    \* the check of project idx has just returned results[idx]
    /\ \A i \in {j \in {idx} : pc = "checked"} :
           LET p == projects[i]
               c == ConfigUsed(i)
               r == results[i]
               t == find_targets(p, c)
               n == FileCount(filtered_python_files(p, t, c))
               failed(msg) == ~r.success /\ r.error_message = msg /\ CallsBy(i) = <<>>
           IN  IF ~p.exists THEN failed("Project path does not exist")
               ELSE IF t = <<>> THEN failed("No target directories found")
               ELSE IF n = 0 THEN failed("No Python files found")
               ELSE /\ r.success
                    /\ r.error_message = ""
                    /\ [k \in 1..Len(CallsBy(i)) |-> CallsBy(i)[k].tool] = Tools
                    /\ \A k \in 1..Len(CallsBy(i)) : CallsBy(i)[k].targets = t
                    /\ r.target_dirs = t
                    /\ DictKeys(r.tool_results) = Tools

\* a batch that ended with a successful check (four tool runs) and a check
\* that found a target directory and no Python file in it
C1_Witness ==
    /\ pc = "done"
    /\ \E i \in 1..Len(results) : results[i].success /\ Len(CallsBy(i)) = Len(Tools)
    /\ \E j \in 1..Len(results) : results[j].error_message = "No Python files found"

\* C2: when an analyzer's run fails, the failure is stored under that
\* analyzer's identifier in tool_results, every analyzer after it in the list
\* is still run, and the CheckResult's success stays true.
C2_AnalyzerFailureAbsorbed ==
    \A i \in 1..Len(results) :
        \A k \in 1..Len(CallsBy(i)) :
            LET e == CallsBy(i)[k]
                r == results[i]
            IN  ~e.ok =>
                    /\ DictHas(r.tool_results, e.tool)
                    /\ DictGet(r.tool_results, e.tool).tool_name = e.tool
                    /\ ~DictGet(r.tool_results, e.tool).success
                    /\ DictGet(r.tool_results, e.tool).error_message # ""
                    /\ \A j \in 1..Len(Tools) :
                           (Tools[j] = e.tool) =>
                               \A l \in (j + 1)..Len(Tools) :
                                   /\ Len(CallsBy(i)) >= l
                                   /\ CallsBy(i)[l].tool = Tools[l]
                    /\ r.success

\* a delivered result whose first analyzer failed and whose last one ran
C2_Witness ==
    \E i \in 1..Len(results) :
        /\ results[i].success
        /\ ~DictGet(results[i].tool_results, "flake8").success
        /\ DictGet(results[i].tool_results, "radon_mi").success
        /\ ~CallsBy(i)[1].ok

\* C3: batch_check never aborts because of one project: whatever happens
\* while loading the configuration of or checking one discovered project,
\* every discovered project is attempted and the returned list has one
\* CheckResult per discovered project, in discovery order.
C3_BatchNeverAborts ==
    mode = "batch" =>
        /\ pc # "raised"
        /\ pc = "done" =>
               /\ Len(results) = Len(projects)
               /\ \A i \in 1..Len(results) : results[i].project_path = projects[i].name

\* a failure of scope determination for the project p of a single check
ScopeFailure(p) ==
    \/ ~p.exists
    \/ shared = NoConfig /\ load_config(p, hasYaml).kind = "raise"
    \/ LET c == IF shared = NoConfig THEN load_config(p, hasYaml) ELSE shared
       IN  c.kind = "config" /\
           LET t == find_targets(p, c)
           IN  t = <<>> \/ FileCount(filtered_python_files(p, t, c)) = 0

\* C4: every failure that affects scope determination of a single project
\* check (missing path, no target directories, no eligible files, a marker
\* configuration file that cannot be parsed or whose parser is unavailable)
\* ends the check early and reaches the caller as a CheckResult with
\* success = false and a non-empty error_message.
C4_ScopeFailureDelivered ==
    (mode = "single" /\ pc \in {"done", "raised"} /\ ScopeFailure(projects[1])) =>
        /\ pc = "done"
        /\ Len(results) = 1
        /\ ~results[1].success
        /\ results[1].error_message # ""
        /\ calls = <<>>

\* C5: a project check that fails invokes no analyzer and writes no report
\* file: no per-tool report, no SUMMARY.md, and no report directory is made
\* for it.
C5_FailedCheckWritesNothing ==
    \A i \in 1..Len(results) :
        ~results[i].success => CallsBy(i) = <<>> /\ WritesBy(i) = <<>>

\* a finished batch with a failed check beside a successful one that wrote
\* its reports
C5_Witness ==
    /\ pc = "done" /\ mode = "batch"
    /\ \E i \in 1..Len(results) : ~results[i].success
    /\ \E j \in 1..Len(results) : results[j].success /\ WritesBy(j) # <<>>

\* the results of the successful checks, in order
Successful == SelectSeq(results, LAMBDA r : r.success)

\* the batch summaries written so far
BatchSummaries ==
    SelectSeq(written, LAMBDA e : e.by = 0 /\ e.op = "write")

\* how many members of the sequence s equal x
CountOf(s, x) == Cardinality({k \in 1..Len(s) : s[k] = x})

\* C17: when a batch is over, no batch summary was written if no project
\* succeeded; otherwise one was, and it is built from the successful
\* results only: its totals are the sums of python_files, flake8_issues,
\* duplicate_blocks and high_complexity over them, and its rows are their
\* rows, one each, in ascending score order.
C17_BatchSummaryOfSuccessful ==
    (mode = "batch" /\ pc = "done") =>
        IF Successful = <<>> THEN BatchSummaries = <<>>
        ELSE /\ Len(BatchSummaries) = 1
             /\ BatchSummaries[1].path = OutPath(<<>>, "SUMMARY.md")
             /\ LET s == BatchSummaries[1].content
                     n == Len(Successful)
                     row(r) == summary_markdown(metrics_of(r))
                IN  /\ s.projects = n
                    /\ s.total_files = SumSeq([i \in 1..n |-> Successful[i].python_files])
                    /\ s.total_flake8 = SumSeq([i \in 1..n |-> flake8_issues(Successful[i])])
                    /\ s.total_dup = SumSeq([i \in 1..n |-> duplicate_blocks(Successful[i])])
                    /\ s.total_complex =
                           SumSeq([i \in 1..n |-> high_complexity(Successful[i])])
                    /\ Len(s.rows) = n
                    /\ \A i \in 1..n :
                           CountOf(s.rows, row(Successful[i]))
                               = CountOf([k \in 1..n |-> row(Successful[k])],
                                         row(Successful[i]))
                    /\ \A i, j \in 1..n : i < j => s.rows[i].score <= s.rows[j].score

\* a finished batch of three projects: one failed, two succeeded, the first
\* of them with the higher score, so that its row comes second
C17_Witness ==
    /\ mode = "batch" /\ pc = "done"
    /\ Len(results) = 3 /\ Len(Successful) = 2
    /\ score(metrics_of(Successful[1])) > score(metrics_of(Successful[2]))
    /\ Len(BatchSummaries) = 1
    /\ BatchSummaries[1].content.rows[1].project_name = Successful[2].project_name
    /\ BatchSummaries[1].content.total_flake8 > 0

\* C18: in a batch, the directory that receives the reports of one project
\* receives nothing from another project of the batch.
C18_IndependentReportDirs ==
    mode = "batch" =>
        \A a, b \in 1..Len(written) :
            (written[a].by > 0 /\ written[b].by > 0 /\ written[a].by # written[b].by)
                => written[a].path.dir # written[b].path.dir

\* C19: once the run is over, the exit status is 0 exactly when a check of
\* the run succeeded: the project's in single mode, at least one project's
\* in batch mode.
C19_ExitStatusIffSuccess ==
    pc \in {"done", "raised"} =>
        (ExitStatus = 0 <=> \E i \in 1..Len(results) : results[i].success)

\* the summaries of the project checks written so far
ProjectSummaries ==
    SelectSeq(written, LAMBDA e : e.by > 0 /\ e.op = "write" /\ e.path.file = "SUMMARY.md")

\* whether the last thing written is the summary of a project check
SummaryJustWritten ==
    /\ written # <<>>
    /\ written[Len(written)].by > 0
    /\ written[Len(written)].path.file = "SUMMARY.md"

\* the count a tool result contributes: 0 when it is missing or failed
Contribution(tres, tool, count(_)) ==
    IF DictHas(tres, tool) /\ DictGet(tres, tool).success
    THEN count(DictGet(tres, tool)) ELSE 0

\* C20: the summary of a successful project, when it has just been written,
\* reports flake8_issues = the flake8 result's issue_count, duplicate_blocks
\* = the pylint result's details['duplicate_blocks'], high_complexity = the
\* radon_cc result's issue_count, each 0 when that result is missing or
\* failed, python_files = the number of filtered files, and a score that is
\* the same whatever the radon_mi result is.
C20_MetricsFromToolResults ==
    SummaryJustWritten =>
        LET s == written[Len(written)].content
            i == written[Len(written)].by
            r == results[i]
            c == ConfigUsed(i)
            none == [r EXCEPT !.tool_results = EmptyDict]
        IN  /\ r.success
            /\ s.flake8_issues =
                   Contribution(r.tool_results, "flake8", LAMBDA t : t.issue_count)
            /\ s.duplicate_blocks =
                   Contribution(r.tool_results, "pylint",
                                LAMBDA t : IF "duplicate_blocks" \in DOMAIN t.details
                                           THEN t.details.duplicate_blocks ELSE 0)
            /\ s.high_complexity =
                   Contribution(r.tool_results, "radon_cc", LAMBDA t : t.issue_count)
            /\ s.python_files =
                   FileCount(filtered_python_files(projects[i],
                                                   find_targets(projects[i], c), c))
            /\ \A mi \in {ToolResult("radon_mi", FALSE, 0, <<>>, NoFile, EmptyDict, "x"),
                           ToolResult("radon_mi", TRUE, 7, <<>>, NoFile,
                                      [issue_count |-> 7], "")} :
                   LET other == [r EXCEPT !.tool_results = DictPut(@, "radon_mi", mi)]
                   IN  summary_markdown(metrics_of(other)) = s
            /\ metrics_of(none).flake8_issues = 0
            /\ metrics_of(none).duplicate_blocks = 0
            /\ metrics_of(none).high_complexity = 0

\* the summary of a project whose flake8 did not run, whose pylint found two
\* duplicate blocks and whose radon cc found a complex function
C20_Witness ==
    \E k \in 1..Len(ProjectSummaries) :
        LET s == ProjectSummaries[k].content
            r == results[ProjectSummaries[k].by]
        IN  /\ ~DictGet(r.tool_results, "flake8").success
            /\ DictGet(r.tool_results, "radon_mi").success
            /\ s.flake8_issues = 0
            /\ s.duplicate_blocks = 2
            /\ s.high_complexity = 1
            /\ s.python_files > 0

\* C24: with an empty include list every directory find_targets returns
\* passes should_include and holds at least one eligible file, one that
\* get_python_files keeps and should_include accepts: each auto-discovered
\* target contributes a file to the check.
C24_AutoTargetsHaveEligibleFiles ==
    (pc \in {"tools", "checked"} /\ cfg.include = <<>> /\ projects[idx].exists) =>
        LET p == projects[idx]
            target_dirs == find_targets(p, cfg)
            py_files == filtered_python_files(p, target_dirs, cfg)
        IN  \A k \in 1..Len(target_dirs) :
                /\ should_include(cfg, AbsPath(p, target_dirs[k]), AbsPath(p, <<>>))
                /\ py_files[k] # {}

\* C25: in a successful check no target directory handed to the analyzers
\* is matched by an exclude pattern, by its relative path or by one of its
\* segments, whether it came from a glob include, a literal include or the
\* automatic scan.
C25_NoExcludedTarget ==
    (pc = "checked" /\ results[Len(results)].success) =>
        LET r == results[Len(results)]
        IN  /\ \A k \in 1..Len(r.target_dirs) :
                   ~ExcludeHits(cfg, relative_to(AbsPath(projects[idx], r.target_dirs[k]),
                                                 AbsPath(projects[idx], <<>>)))
            /\ \A k \in 1..Len(calls) :
                   calls[k].by = idx => calls[k].targets = r.target_dirs

(***************************************************************************)
(* Properties of should_include (SpecInclude)                              *)
(***************************************************************************)
\* some exclude pattern of config c matches the relative path of `path`
\* under `base`, or one of its segments
SomeExcludeMatches(c, path, base) ==
    LET rel == relative_to(path, base)
    IN  \E i \in 1..Len(c.exclude) :
            \/ match_pattern(PathStr(rel), c.exclude[i])
            \/ \E k \in 1..Len(PathParts(rel)) :
                   match_pattern(PathParts(rel)[k], c.exclude[i])

\* some include pattern of c matches the path, or the prefix rule does
SomeIncludeMatches(c, path, base) ==
    LET rel == relative_to(path, base)
    IN  \E i \in 1..Len(c.include) :
            \/ match_pattern(PathStr(rel), c.include[i])
            \/ startswith(PathStr(rel), rstrip_slash(c.include[i]))

\* C6: exclude precedence: if an exclude pattern matches the relative path or
\* one of its segments, should_include returns false, whatever the include
\* patterns are.
C6_ExcludePrecedence ==
    (fnPc = "out" /\ SomeExcludeMatches(fnIn.config, fnIn.path, fnIn.base)) =>
        fnOut = FALSE

\* a path that an exclude pattern and an include pattern both match, refused
C6_Witness ==
    /\ fnPc = "out"
    /\ SomeExcludeMatches(fnIn.config, fnIn.path, fnIn.base)
    /\ SomeIncludeMatches(fnIn.config, fnIn.path, fnIn.base)
    /\ fnOut = FALSE

\* the relative path of `path` under `base` is the directory the include
\* pattern names, or lies inside it
InsideIncludeDir(pattern, path, base) ==
    LET rel == relative_to(path, base)
    IN  /\ ~rel.abs
        /\ IsPrefix(PathComponents(rstrip_slash(pattern)), rel.segs)

\* C26: with a non-empty include list should_include accepts a path only if
\* an include pattern matches it (its relative path or its basename) or the
\* path is an include directory itself or inside one; a sibling whose name
\* merely starts with the directory's name (ab beside a) is not accepted.
C26_IncludePrefixIsPathPrefix ==
    (fnPc = "out" /\ fnIn.config.include # <<>> /\ fnOut) =>
        \E i \in 1..Len(fnIn.config.include) :
            \/ match_pattern(PathStr(relative_to(fnIn.path, fnIn.base)),
                             fnIn.config.include[i])
            \/ InsideIncludeDir(fnIn.config.include[i], fnIn.path, fnIn.base)

(***************************************************************************)
(* Properties of QualityMetrics (SpecScore); scores are in tenths          *)
(***************************************************************************)
\* C7: score bounds: for all non-negative counts, 0 <= score <= 100.
C7_ScoreBounds ==
    /\ fnIn.flake8_issues >= 0 /\ fnIn.duplicate_blocks >= 0 /\ fnIn.high_complexity >= 0
    /\ 0 <= fnOut.score
    /\ fnOut.score <= 1000

\* every category at its clamp: the score is 0
C7_Witness ==
    /\ fnIn.flake8_issues = 1000
    /\ fnIn.duplicate_blocks = MaxDuplicates
    /\ fnIn.high_complexity = MaxComplexity
    /\ fnOut.score = 0

\* C8: score monotonicity: increasing one of the three counts while the other
\* two are held fixed never increases the score.
C8_ScoreMonotone ==
    [][ ( \/ /\ fnIn'.flake8_issues > fnIn.flake8_issues
             /\ fnIn'.duplicate_blocks = fnIn.duplicate_blocks
             /\ fnIn'.high_complexity = fnIn.high_complexity
          \/ /\ fnIn'.flake8_issues = fnIn.flake8_issues
             /\ fnIn'.duplicate_blocks > fnIn.duplicate_blocks
             /\ fnIn'.high_complexity = fnIn.high_complexity
          \/ /\ fnIn'.flake8_issues = fnIn.flake8_issues
             /\ fnIn'.duplicate_blocks = fnIn.duplicate_blocks
             /\ fnIn'.high_complexity > fnIn.high_complexity )
        => fnOut'.score <= fnOut.score ]_vars

\* counts have grown in every category and the score has dropped
C8_Witness ==
    /\ fnIn.flake8_issues > 0 /\ fnIn.duplicate_blocks > 0 /\ fnIn.high_complexity > 0
    /\ fnOut.score = 1000 - 2 - 15 - 20

\* C9: per-category clamp: style issues deduct min(0.2 n, 30), duplicate
\* blocks min(1.5 n, 40), high-complexity functions min(2 n, 30), each capped
\* before the sum; every flake8_issues >= 150 deducts exactly 30, so 150 and
\* 1000 give the same score when the other counts are equal.
C9_PerCategoryClamp ==
    /\ 1000 - fnOut.score = Min(2 * fnIn.flake8_issues, 300)
                            + Min(15 * fnIn.duplicate_blocks, 400)
                            + Min(20 * fnIn.high_complexity, 300)
    /\ fnIn.flake8_issues >= 150 =>
           fnOut.score = score(Metrics(150, fnIn.duplicate_blocks, fnIn.high_complexity))

\* 1000 style issues and nothing else: 30 points are deducted
C9_Witness ==
    /\ fnIn.flake8_issues = 1000
    /\ fnIn.duplicate_blocks = 0
    /\ fnIn.high_complexity = 0
    /\ fnOut.score = 700

\* the band the rating icon stands for
IconBand(icon) ==
    CASE icon = "check" -> "excellent"
      [] icon = "warning" -> "good"
      [] icon = "orange_diamond" -> "moderate"
      [] icon = "red_circle" -> "poor"

\* C10: the rating is decided by the score: >= 80 excellent, 60 <= score < 80
\* good, 40 <= score < 60 moderate, < 40 poor; and the rating icon names the
\* same band as the rating.
C10_RatingBands ==
    /\ fnOut.rating = "excellent" <=> fnOut.score >= 800
    /\ fnOut.rating = "good" <=> (600 <= fnOut.score /\ fnOut.score < 800)
    /\ fnOut.rating = "moderate" <=> (400 <= fnOut.score /\ fnOut.score < 600)
    /\ fnOut.rating = "poor" <=> fnOut.score < 400
    /\ IconBand(fnOut.rating_emoji) = fnOut.rating

\* a score on a threshold: exactly 60 is good
C10_Witness ==
    /\ fnOut.score = 600
    /\ fnOut.rating = "good"
    /\ fnOut.rating_emoji = "warning"

(***************************************************************************)
(* Properties of the adapters (SpecTool)                                   *)
(***************************************************************************)
\* C11: run() with an empty target list returns success = false with the
\* message 'No targets specified', and takes no step at all: no command is
\* built, no process started, no report file written.
C11_EmptyTargetsRejected ==
    (fnPc = "ran" /\ fnIn.targets = <<>>) =>
        /\ fnOut.result.success = FALSE
        /\ fnOut.result.error_message = "No targets specified"
        /\ fnOut.steps = <<>>
        /\ fnOut.writes = <<>>

\* run() was given no target, a report file and a process that would run
C11_Witness ==
    /\ fnPc = "ran" /\ fnIn.targets = <<>>
    /\ fnIn.output_file # NoFile /\ fnIn.proc.launched
    /\ fnOut.result.error_message = "No targets specified"

\* C12: with targets, run() returns success = false only when the process
\* could not be run; whenever the process ran, whatever its exit status, the
\* result has success = true.
C12_FailsOnlyWhenNotRun ==
    (fnPc = "ran" /\ fnIn.targets # <<>>) =>
        (fnOut.result.success <=> fnIn.proc.launched)

\* the text of a report: standard output, then, only when standard error is
\* not empty, the delimiter and standard error
ReportText(proc) ==
    IF proc.stderr = <<>> THEN proc.stdout
    ELSE proc.stdout \o <<"\n", "=", "=", "=", " ", "S", "T", "D", "E", "R", "R", " ", "=", "=", "=", "\n">> \o proc.stderr

Position(steps, step) == CHOOSE k \in 1..Len(steps) : steps[k] = step

ZeroCounts(tool, d) ==
    CASE tool = "flake8" ->
             d.issue_count = 0 /\ d.issues_by_code = <<>> /\ d.issues_by_file = <<>>
      [] tool = "pylint" ->
             /\ d.issue_count = 0 /\ d.duplicate_blocks = 0
             /\ d.score = Float(0, 0) /\ d.issues_by_type = <<>>
      [] tool = "radon_cc" ->
             /\ d.issue_count = 0 /\ d.high_complexity_functions = <<>>
             /\ \A i \in 1..Len(d.functions_by_grade) : d.functions_by_grade[i].value = 0
      [] tool = "radon_mi" ->
             /\ d.issue_count = 0 /\ d.low_maintainability_files = <<>>
             /\ \A i \in 1..Len(d.files_by_grade) : d.files_by_grade[i].value = 0

\* the texts without anything a parser looks for: the empty text, newlines
Blank(text) == \A i \in 1..Len(text) : text[i] = "\n"

\* C14: parse_output of each adapter returns (never raises) for every text,
\* and returns zero counts for a text with nothing to match.
C14_ParseOutputTotal ==
    fnPc = "parsed" =>
        /\ fnOut.kind = "return"
        /\ Blank(fnIn.proc.stdout) => ZeroCounts(fnIn.tool, fnOut.value)

\* the sum of the counts of a dict
Total(d) == SumSeq(DictValues(d))

\* C21: Flake8Tool.parse_output, for every text: issue_count equals the sum
\* of the issues_by_code counts and the sum of the issues_by_file counts
\* (each counted line is tallied once under its code and once under its
\* file).
C21_Flake8CountsAgree ==
    (fnPc = "parsed" /\ fnIn.tool = "flake8") =>
        /\ fnOut.value.issue_count = Total(fnOut.value.issues_by_code)
        /\ fnOut.value.issue_count = Total(fnOut.value.issues_by_file)

\* the lines of a text that a regular expression matches
MatchingLines(text, pat) ==
    SelectSeq(str_split(text, "\n"), LAMBDA line : re_search(line, pat).ok)

\* C22: RadonCCTool.parse_output, for every text: the tallies of
\* functions_by_grade add up to the number of matching lines, and issue_count
\* = the tallies of the grades C, D, E and F = the length of
\* high_complexity_functions, which holds no entry of grade A or B.
C22_RadonCCCounts ==
    (fnPc = "parsed" /\ fnIn.tool = "radon_cc") =>
        LET d == fnOut.value
            by_grade == d.functions_by_grade
        IN  /\ Total(by_grade) = Len(MatchingLines(fnIn.proc.stdout, RE_cc))
            /\ d.issue_count = DictGet(by_grade, "C") + DictGet(by_grade, "D")
                                + DictGet(by_grade, "E") + DictGet(by_grade, "F")
            /\ d.issue_count = Len(d.high_complexity_functions)
            /\ \A k \in 1..Len(d.high_complexity_functions) :
                   d.high_complexity_functions[k].grade \notin {"A", "B"}

\* a grade-A line and a grade-C line were parsed
C22_Witness ==
    /\ fnPc = "parsed" /\ fnIn.tool = "radon_cc"
    /\ DictGet(fnOut.value.functions_by_grade, "A") = 1
    /\ DictGet(fnOut.value.functions_by_grade, "C") = 1
    /\ fnOut.value.issue_count = 1

\* C23: RadonMITool.parse_output, for every text it returns for: issue_count
\* = files_by_grade['C']; low_maintainability_files holds the matched entries
\* of grade B or C and no other, so its length is files_by_grade['B'] +
\* files_by_grade['C'].
C23_RadonMICounts ==
    (fnPc = "parsed" /\ fnIn.tool = "radon_mi" /\ fnOut.kind = "return") =>
        LET d == fnOut.value
            by_grade == d.files_by_grade
        IN  /\ Total(by_grade) = Len(MatchingLines(fnIn.proc.stdout, RE_mi))
            /\ d.issue_count = DictGet(by_grade, "C")
            /\ Len(d.low_maintainability_files)
                   = DictGet(by_grade, "B") + DictGet(by_grade, "C")
            /\ \A k \in 1..Len(d.low_maintainability_files) :
                   d.low_maintainability_files[k].grade \in {"B", "C"}

\* a grade-B line and a grade-C line were parsed: two files listed, one issue
C23_Witness ==
    /\ fnPc = "parsed" /\ fnIn.tool = "radon_mi" /\ fnOut.kind = "return"
    /\ DictGet(fnOut.value.files_by_grade, "B") = 1
    /\ DictGet(fnOut.value.files_by_grade, "C") = 1
    /\ fnOut.value.issue_count = 1
    /\ Len(fnOut.value.low_maintainability_files) = 2

(***************************************************************************)
(* Properties of _match_pattern (SpecMatch)                                *)
(***************************************************************************)
\* the final segment of a path string: what follows its last '/'
Basename(path_str) ==
    LET pieces == str_split(path_str, "/") IN pieces[Len(pieces)]

EndsWith(s, suffix) ==
    Len(suffix) <= Len(s) /\ SubSeq(s, Len(s) - Len(suffix) + 1, Len(s)) = suffix

\* C15: for the pattern '*.py', _match_pattern(p, '*.py') is true exactly
\* when the basename of p ends in '.py', at every directory depth.
C15_StarPyMatchesBasename ==
    (fnPc = "out" /\ fnIn.pattern = <<"*", ".", "p", "y">>) =>
        (fnOut <=> EndsWith(Basename(fnIn.path_str), <<".", "p", "y">>))

\* a file two directories down whose name ends in '.py' was matched
C15_Witness ==
    /\ fnPc = "out" /\ fnIn.pattern = <<"*", ".", "p", "y">>
    /\ Len(str_split(fnIn.path_str, "/")) = 3
    /\ Basename(fnIn.path_str) = <<"a", ".", "p", "y">>
    /\ fnOut = TRUE

\* shell glob matching of one string: as fnmatch, but a '*' takes no '/'
RECURSIVE ShellGlob(_, _)
ShellGlob(s, pat) ==
    IF pat = <<>> THEN s = <<>>
    ELSE IF Head(pat) = "*"
         THEN \/ ShellGlob(s, Tail(pat))
              \/ s # <<>> /\ Head(s) # "/" /\ ShellGlob(Tail(s), pat)
    ELSE /\ s # <<>>
         /\ Head(pat) = "?" \/ Head(pat) = Head(s)
         /\ ShellGlob(Tail(s), Tail(pat))

\* C16: a '*' of the pattern matches characters of one path segment only:
\* whenever _match_pattern accepts a path, the path or its final segment
\* matches the pattern with no '*' taking a '/'; so 'src/*.py' does not
\* match 'src/pkg/a.py'.
C16_StarWithinSegment ==
    (fnPc = "out" /\ fnOut = TRUE) =>
        \/ ShellGlob(fnIn.path_str, rstrip_slash(fnIn.pattern))
        \/ ShellGlob(PathName(fnIn.path_str), rstrip_slash(fnIn.pattern))

====
